---------------------------- MODULE Spec2Model ----------------------------
(***************************************************************************)
(* Model of the visualization assembly pipeline of EvolutionThesis:        *)
(*   - collate_pages.py : add_border, add_border_c, collate_pdf_by_sha,    *)
(*                        arrange_pages_horizontal, determine_ideal_shape  *)
(*                        collate_all                                      *)
(*   - create_figure.py : transfer_stats_between_wc, scale_wordcloud,      *)
(*                        add_stats_graph, test_all_graphs, test_header    *)
(*   - main.py          : create_stats_from_sha, compile_pdf_from_sha,     *)
(*                        test_create_all_stats, test_compile_all_pdfs     *)
(* Every component is a synchronous call; a call is one action.  The       *)
(* growth loop of determine_ideal_shape is modelled one iteration per      *)
(* action, and so are the loops of the drivers.  Seven specifications      *)
(* share the module, one per component:                                    *)
(* SpecCanvas, SpecShape, SpecTransfer, SpecScale, SpecFrames,             *)
(* SpecCollateAll and SpecRepo.                                            *)
(***************************************************************************)
EXTENDS Integers, Sequences, FiniteSets, TLC

VARIABLES
    pdf_pages,      \* pdf_pages_path/<sha>/*.png : stem -> decoded image
    collated_png,   \* collated_pdfs_path/<sha>.png : the persisted composite
    call,           \* the arguments of the canvas call made, or NoCall
    outcome,        \* how the canvas call ended: "ok" or the exception raised
    ret,            \* the value the canvas call returned
    ds_pc,          \* determine_ideal_shape: "idle", "loop" or "done"
    ds_size,        \* determine_ideal_shape: size = len(list_of_images)
    ds_i,           \* determine_ideal_shape: iterations of the for loop begun
    adder_r,        \* determine_ideal_shape: rows added
    adder_c,        \* determine_ideal_shape: columns added
    ds_fits,        \* determine_ideal_shape: whether the loop ended by break
    ds_ret,         \* determine_ideal_shape: the tuple returned
    ds_prev,        \* the previous finished call of determine_ideal_shape
    clouds,         \* heap of WordCloud objects: id -> layout_
    wc_call,        \* the word-cloud call made: arguments and heap before it
    wc_ret,         \* id of the WordCloud object the call returned
    wc_outcome,     \* how the word-cloud call ended: "ok" or the exception
    stats_pkl,      \* ./stats/*.pkl : the pickled Stats of the snapshots
    fr_call,        \* the frame loop running: its function name, or "none"
    list_of_Stats,  \* frame loop: the Stats sorted by date
    fr_i,           \* frame loop: iterations of the for loop finished
    previous_message, \* frame loop: <<value>> of the local, <<>> while unbound
    figs,           \* frame loop: the frames saved, by index i
    fr_outcome,     \* frame loop: "running", "ok" or the exception raised
    commits,        \* load_commit_list(): the shas in commit order
    pages_of,       \* pdf_pages_path/<sha>/ for every sha of the list
    collated_of,    \* collated_pdfs_path/<sha>.png for every sha of the list
    ca_i,           \* collate_all: iterations of the for loop finished
    ca_outcome,     \* collate_all: "none", "running", "ok" or the exception
    ca_runs,        \* collate_all: the runs started so far
    ca_previous,    \* collate_all: how the run before this one ended
    ca_before,      \* collate_all: collated_of as this run found it
    ca_composed,    \* collate_all: the commits this run has composed
    head,           \* thesis repository: the revision checked out
    cwd,            \* the directory the process works in
    pdfs,           \* ../FilmeTese/pdfs/<sha>.pdf : the shas compiled
    rp_commits,     \* load_commit_list(): the shas in commit order
    rp_call,        \* the last call of a function of main.py begun
    rp_outcome,     \* how that call ended: "ok" or the exception; "running"
    rp_calls,       \* calls made from outside the loops, before a loop runs
    rp_loop,        \* the loop running: its function name, or "none"
    rp_i,           \* loop: iterations of the for loop finished
    rp_start,       \* loop: the revision checked out when it was called
    rp_loop_outcome \* loop: "running", "ok" or the exception raised

canvasVars == <<pdf_pages, collated_png, call, outcome, ret>>
shapeVars == <<ds_pc, ds_size, ds_i, adder_r, adder_c, ds_fits, ds_ret, ds_prev>>
cloudVars == <<clouds, wc_call, wc_ret, wc_outcome>>
framesVars == <<stats_pkl, fr_call, list_of_Stats, fr_i, previous_message, figs,
                fr_outcome>>
driverVars == <<commits, pages_of, collated_of, ca_i, ca_outcome, ca_runs,
                ca_previous, ca_before, ca_composed>>
repoVars == <<head, cwd, pdfs, rp_commits, rp_call, rp_outcome, rp_calls,
              rp_loop, rp_i, rp_start, rp_loop_outcome>>
vars == <<canvasVars, shapeVars, cloudVars, framesVars, driverVars, repoVars>>

(***************************************************************************)
(* Bounds of the model.                                                    *)
(***************************************************************************)
MaxTiles == 3       \* most page images of one snapshot
MaxGrid == 3        \* largest rows and cols argument
MaxSize == 12       \* largest small page count given to determine_ideal_shape
MaxWords == 2       \* most entries of one word-cloud layout
MaxSnapshots == 5   \* most pickled Stats the frame loops walk
MaxCommits == 3     \* most commits of the list collate_all walks
MaxRuns == 2        \* most runs of collate_all over one commit list
MaxCalls == 2       \* most calls of main.py functions made outside its loops

(***************************************************************************)
(* Images.  An image is an h x w array of pixels, a pixel a triple of      *)
(* channel values; indices are 0-based as in numpy.                        *)
(***************************************************************************)
Image(h, w, px) == [kind |-> "ndarray", h |-> h, w |-> w, px |-> px]
NoneValue == [kind |-> "None", h |-> 0, w |-> 0, px |-> <<>>]
NoFile == [kind |-> "absent", h |-> 0, w |-> 0, px |-> <<>>]
IsImage(v) == v.kind = "ndarray"

Coords(h, w) == (0 .. h - 1) \X (0 .. w - 1)

Black == <<0, 0, 0>>
White == <<255, 255, 255>>
Grey == <<200, 200, 200>>

\* A stored value of a uint8 array.
ToUint8(v) == v % 256
CastPixel(p) == <<ToUint8(p[1]), ToUint8(p[2]), ToUint8(p[3])>>

\* np.full((h, w, 3), color)
Full(h, w, color) == Image(h, w, [c \in Coords(h, w) |-> color])

\* np.zeros((h, w, 3))
Zeros(h, w) == Full(h, w, Black)

\* target[y0 : y0 + src.h, x0 : x0 + src.w, :] = src
Paste(target, y0, x0, src) ==
    LET upto(a, b) == IF a < b THEN a ELSE b
        slice == (y0 .. upto(y0 + src.h, target.h) - 1)
                     \X (x0 .. upto(x0 + src.w, target.w) - 1)
    IN  Image(target.h, target.w,
              [c \in slice |-> src.px[<<c[1] - y0, c[2] - x0>>]] @@ target.px)

add_border(image, width) ==
    Paste(Zeros(image.h + width * 2, image.w + width * 2), width, width, image)

add_border_c(image, border_width, color) ==
    Paste(Full(image.h + border_width * 2, image.w + border_width * 2, color),
          border_width, border_width, image)

(***************************************************************************)
(* Page lists.  A page is a path, modelled by the rank of its file stem in *)
(* lexicographic order, or None (the filler of arr_pages).                 *)
(***************************************************************************)
Path(stem) == <<stem>>
None == <<>>
Truthy(page) == page # None
Stem(page) == page[1]

Repeat(x, n) == [k \in 1 .. n |-> x]

\* list.sort(key=lambda x: x.stem): a path stands at the place its stem has
\* among the stems.
SortByStem(paths) ==
    LET place == {<<Cardinality({q \in paths : Stem(q) < Stem(p)}) + 1, p>> :
                     p \in paths}
    IN  [k \in 1 .. Cardinality(paths) |-> (CHOOSE e \in place : e[1] = k)[2]]

\* imageio.imread(page)
imread(files, page) == files[Stem(page)]

(***************************************************************************)
(* arrange_pages_horizontal.  A call ends in a result: the exception it    *)
(* raised, or "ok" and the value returned.                                 *)
(***************************************************************************)
Raise(exc) == [outcome |-> exc, value |-> NoneValue]
Return(v) == [outcome |-> "ok", value |-> v]

\* test_page = imageio.imread(pages[0]) on an empty list
EmptyPagesBlank(num_rows, num_cols, background_color) ==
    Return(Full(num_rows, num_cols, background_color))
EmptyPages(num_rows, num_cols, background_color) == Raise("IndexError")

\* pages = pages + [None] * extra_required_pages
PadPagesTruncate(pages, ideal_num_pages) ==
    SubSeq(pages \o Repeat(None, ideal_num_pages - Len(pages)), 1, ideal_num_pages)
PadPages(pages, ideal_num_pages) ==
    pages \o Repeat(None, ideal_num_pages - Len(pages))

\* np.array(pages).reshape((num_rows, num_cols)) succeeds
CanReshape(count, num_rows, num_cols) == count = num_rows * num_cols

\* arr_pages[i, j] of the reshaped (row-major) array
PageAt(arr_pages, num_cols, i, j) == arr_pages[i * num_cols + j + 1]

\* bpage = np.full((t_bpage_h, t_bpage_w, 3), background_color)
BlankPageZeros(t_bpage_h, t_bpage_w, background_color) ==
    Zeros(t_bpage_h, t_bpage_w)
BlankPage(t_bpage_h, t_bpage_w, background_color) ==
    Full(t_bpage_h, t_bpage_w, background_color)

\* canvas[i*h : (i+1)*h, j*w : (j+1)*w, :] = bpage, canvas being uint8
PlaceCellTransposed(canvas, i, j, t_bpage_h, t_bpage_w, bpage) ==
    Paste(canvas, j * t_bpage_h, i * t_bpage_w,
          Image(bpage.h, bpage.w,
                [c \in Coords(bpage.h, bpage.w) |-> CastPixel(bpage.px[c])]))
PlaceCell(canvas, i, j, t_bpage_h, t_bpage_w, bpage) ==
    Paste(canvas, i * t_bpage_h, j * t_bpage_w,
          Image(bpage.h, bpage.w,
                [c \in Coords(bpage.h, bpage.w) |-> CastPixel(bpage.px[c])]))

\* The body of the two nested loops, for cell k = i * num_cols + j.
FillCell(canvas, files, arr_pages, num_cols, k, h, w, background_color) ==
    LET i == k \div num_cols
        j == k % num_cols
        page == PageAt(arr_pages, num_cols, i, j)
    IN  CHOOSE placed \in {PlaceCell(canvas, i, j, h, w, bpage) :
                              bpage \in {IF Truthy(page)
                                         THEN add_border_c(imread(files, page), 1, Black)
                                         ELSE BlankPage(h, w, background_color)}} :
             TRUE

\* for j in range(num_cols): ... of row i, for the columns lo .. hi - 1 in
\* loop order: one column is its cell, a longer run is its first half and then,
\* on the canvas that left, its second half.
RECURSIVE FillRow(_, _, _, _, _, _, _, _, _, _)
FillRow(canvas, files, arr_pages, num_cols, i, lo, hi, h, w, background_color) ==
    IF hi <= lo THEN canvas
    ELSE IF hi = lo + 1
    THEN FillCell(canvas, files, arr_pages, num_cols, i * num_cols + lo, h, w,
                  background_color)
    ELSE CHOOSE done \in {FillRow(filled, files, arr_pages, num_cols, i,
                                  (lo + hi) \div 2, hi, h, w, background_color) :
                              filled \in {FillRow(canvas, files, arr_pages, num_cols,
                                                  i, lo, (lo + hi) \div 2, h, w,
                                                  background_color)}} :
             TRUE

\* for i in range(num_rows): for j in range(num_cols): ... for the rows
\* lo .. hi - 1 in loop order, split the same way.
RECURSIVE FillCells(_, _, _, _, _, _, _, _, _)
FillCells(canvas, files, arr_pages, num_cols, lo, hi, h, w, background_color) ==
    IF hi <= lo THEN canvas
    ELSE IF hi = lo + 1
    THEN FillRow(canvas, files, arr_pages, num_cols, lo, 0, num_cols, h, w,
                 background_color)
    ELSE CHOOSE done \in {FillCells(filled, files, arr_pages, num_cols,
                                    (lo + hi) \div 2, hi, h, w, background_color) :
                              filled \in {FillCells(canvas, files, arr_pages, num_cols,
                                                    lo, (lo + hi) \div 2, h, w,
                                                    background_color)}} :
             TRUE

ArrangeNonEmpty(files, pages, num_rows, num_cols, background_color) ==
    LET test_page == imread(files, pages[1])
        t_bpage == add_border(test_page, 1)
        t_bpage_h == t_bpage.h
        t_bpage_w == t_bpage.w
        canvas == Zeros(num_rows * t_bpage_h, num_cols * t_bpage_w)
        padded == PadPages(pages, num_rows * num_cols)
    IN  IF ~CanReshape(Len(padded), num_rows, num_cols)
        THEN Raise("ValueError")
        ELSE Return(FillCells(canvas, files, padded, num_cols, 0, num_rows,
                              t_bpage_h, t_bpage_w, background_color))

arrange_pages_horizontal(files, pages, num_rows, num_cols, background_color) ==
    IF Len(pages) = 0
    THEN EmptyPages(num_rows, num_cols, background_color)
    ELSE ArrangeNonEmpty(files, pages, num_rows, num_cols, background_color)

(***************************************************************************)
(* collate_pdf_by_sha.  The result is the outcome and the file at          *)
(* output_path after the call.                                             *)
(***************************************************************************)
\* assert rows * cols >= len(list_of_images)
CapacityAssert(rows, cols, count) == rows * cols >= count

collate_pdf_by_sha(files, saved, rows, cols) ==
    LET list_of_images == SortByStem({Path(s) : s \in DOMAIN files})
    IN  IF ~CapacityAssert(rows, cols, Len(list_of_images))
        THEN [outcome |-> "AssertionError", saved |-> saved]
        ELSE LET r == arrange_pages_horizontal(files, list_of_images, rows, cols, Grey)
             IN  IF r.outcome = "ok"
                 THEN [outcome |-> "ok", saved |-> r.value]
                 ELSE [outcome |-> r.outcome, saved |-> saved]

(***************************************************************************)
(* The inputs of the canvas calls.                                         *)
(***************************************************************************)
TileShapes == {<<1, 1>>, <<1, 2>>, <<2, 1>>}
TilePaints == {"pattern", "grey"}
BackgroundColors == {White, Grey}

\* Page image number s: a test pattern naming the page and the pixel, or a
\* page that is grey all over.
Tile(s, shape, paint) ==
    Image(shape[1], shape[2],
          [c \in Coords(shape[1], shape[2]) |->
              IF paint = "pattern" THEN <<10 * s + 1, c[1] + 1, c[2] + 1>>
              ELSE Grey])

StaleImage == Full(1, 1, White)

OrderingsOf(S) ==
    {f \in [1 .. Cardinality(S) -> S] : \A x \in S : \E k \in DOMAIN f : f[k] = x}

NoCall == [fn |-> "none", pages |-> <<>>, rows |-> 0, cols |-> 0,
           background_color |-> Black, saved_before |-> NoFile]

CanvasIdle ==
    /\ pdf_pages = <<>>
    /\ collated_png = NoFile
    /\ call = NoCall
    /\ outcome = "none"
    /\ ret = NoneValue

CanvasInit ==
    /\ \E n \in 0 .. MaxTiles, shape \in TileShapes, paint \in TilePaints :
           pdf_pages = [s \in 1 .. n |-> Tile(s, shape, paint)]
    /\ collated_png \in {NoFile, StaleImage}
    /\ call = NoCall
    /\ outcome = "none"
    /\ ret = NoneValue

CollatePdfBySha ==
    /\ call = NoCall
    /\ \E rows \in 0 .. MaxGrid, cols \in 0 .. MaxGrid :
           LET r == collate_pdf_by_sha(pdf_pages, collated_png, rows, cols)
           IN  /\ call' = [fn |-> "collate_pdf_by_sha",
                           pages |-> SortByStem({Path(s) : s \in DOMAIN pdf_pages}),
                           rows |-> rows, cols |-> cols,
                           background_color |-> Grey,
                           saved_before |-> collated_png]
               /\ outcome' = r.outcome
               /\ collated_png' = r.saved
               /\ ret' = NoneValue
    /\ UNCHANGED <<pdf_pages, shapeVars, cloudVars, framesVars,
                 driverVars, repoVars>>

ArrangePagesHorizontal ==
    /\ call = NoCall
    /\ \E rows \in 0 .. MaxGrid, cols \in 0 .. MaxGrid,
          background_color \in BackgroundColors,
          pages \in OrderingsOf({Path(s) : s \in DOMAIN pdf_pages}) :
           LET r == arrange_pages_horizontal(pdf_pages, pages, rows, cols,
                                             background_color)
           IN  /\ call' = [fn |-> "arrange_pages_horizontal",
                           pages |-> pages, rows |-> rows, cols |-> cols,
                           background_color |-> background_color,
                           saved_before |-> collated_png]
               /\ outcome' = r.outcome
               /\ ret' = r.value
    /\ UNCHANGED <<pdf_pages, collated_png, shapeVars, cloudVars, framesVars,
                 driverVars, repoVars>>

CanvasNext == CollatePdfBySha \/ ArrangePagesHorizontal

(***************************************************************************)
(* determine_ideal_shape.  One action per iteration of the for loop, one   *)
(* for the statements after it.                                            *)
(***************************************************************************)
A4_page_size == <<210, 297>>
available_size_image == <<780, 668>>
\* math.floor(a / b) of positive integers
FloorDiv(a, b) == a \div b
num_a4_on_rows == FloorDiv(available_size_image[1], A4_page_size[1])
num_a4_on_cols == FloorDiv(available_size_image[2], A4_page_size[2])

\* range(100)
LoopBound == 100

\* (num_a4_on_rows + adder_r) * (num_a4_on_cols + adder_c) >= size
FitsExactly(r, c, size) ==
    (num_a4_on_rows + r) * (num_a4_on_cols + c) = size
Fits(r, c, size) ==
    (num_a4_on_rows + r) * (num_a4_on_cols + c) >= size

\* if i % 2 == 0: adder_r += 1 else: adder_c += 1
GrowRows(i, r) == IF i % 2 = 0 THEN r + 1 ELSE r
GrowCols(i, c) == IF i % 2 = 0 THEN c ELSE c + 1

Capacity(shape) == shape[1] * shape[2]

\* The shape left when all LoopBound iterations ran without a break.
LargestShape ==
    <<num_a4_on_rows + (LoopBound + 1) \div 2, num_a4_on_cols + LoopBound \div 2>>

\* Page counts tried: the small ones, and those around the largest capacity.
DsSizes ==
    (0 .. MaxSize)
    \cup {Capacity(LargestShape) - 1, Capacity(LargestShape),
          Capacity(LargestShape) + 1, Capacity(LargestShape) + 1 + MaxSize}

NoShapeCall == [done |-> FALSE, size |-> 0, shape |-> <<0, 0>>]

ShapeIdle ==
    /\ ds_pc = "idle"
    /\ ds_size = 0
    /\ ds_i = 0
    /\ adder_r = 0
    /\ adder_c = 0
    /\ ds_fits = FALSE
    /\ ds_ret = <<0, 0>>
    /\ ds_prev = NoShapeCall

\* Entry: size = len(list_of_images); adder_r = 0; adder_c = 0
DsCall ==
    /\ ds_pc \in {"idle", "done"}
    /\ \E size \in DsSizes : ds_size' = size
    /\ ds_prev' = IF ds_pc = "done"
                  THEN [done |-> TRUE, size |-> ds_size, shape |-> ds_ret]
                  ELSE ds_prev
    /\ ds_i' = 0
    /\ adder_r' = 0
    /\ adder_c' = 0
    /\ ds_fits' = FALSE
    /\ ds_ret' = <<0, 0>>
    /\ ds_pc' = "loop"
    /\ UNCHANGED <<canvasVars, cloudVars, framesVars,
                 driverVars, repoVars>>

\* One iteration of the loop body, for i = ds_i.
DsIterate ==
    /\ ds_pc = "loop"
    /\ ds_i < LoopBound
    /\ adder_r' = GrowRows(ds_i, adder_r)
    /\ adder_c' = GrowCols(ds_i, adder_c)
    /\ ds_i' = ds_i + 1
    /\ IF Fits(adder_r', adder_c', ds_size)
       THEN ds_fits' = TRUE /\ ds_pc' = "exit"
       ELSE ds_fits' = FALSE /\ ds_pc' = "loop"
    /\ UNCHANGED <<ds_size, ds_ret, ds_prev, canvasVars, cloudVars, framesVars,
                 driverVars, repoVars>>

\* range(100) is used up: the loop ends without a break.
DsExhaust ==
    /\ ds_pc = "loop"
    /\ ds_i >= LoopBound
    /\ ds_pc' = "exit"
    /\ UNCHANGED <<ds_size, ds_i, adder_r, adder_c, ds_fits, ds_ret, ds_prev,
                   canvasVars, cloudVars, framesVars,
                 driverVars, repoVars>>

\* number_cols = ...; number_rows = ...; return number_rows, number_cols
DsReturn ==
    /\ ds_pc = "exit"
    /\ ds_ret' = <<num_a4_on_rows + adder_r, num_a4_on_cols + adder_c>>
    /\ ds_pc' = "done"
    /\ UNCHANGED <<ds_size, ds_i, adder_r, adder_c, ds_fits, ds_prev,
                   canvasVars, cloudVars, framesVars,
                 driverVars, repoVars>>

ShapeNext == DsCall \/ DsIterate \/ DsExhaust \/ DsReturn

(***************************************************************************)
(* Word clouds.  layout_ is a list of ((word, unk), fs, pos, or, col),     *)
(* modelled as a sequence of records.  WordCloud objects live in a heap:   *)
(* transfer_stats_between_wc assigns into target_cloud.layout_ in place    *)
(* and returns the object it was given.                                    *)
(***************************************************************************)
CloudIds == {"cloud1", "cloud2"}
Words == {"a", "A", "b"}
Styles == {1, 2}
Fields == {"fs", "unk", "pos", "or", "col"}

\* An entry as WordCloud lays it out; style k fixes its attribute values.
\* Orientations and colours are codes, none of them 0.
Entry(w, k) ==
    [word |-> w, unk |-> k, fs |-> 15 * k, pos |-> <<k, k + 2>>,
     or |-> k + 1, col |-> 100 + k]

Layouts ==
    UNION {{l \in [1 .. n -> {Entry(w, k) : w \in Words, k \in Styles}] :
                \A i, j \in 1 .. n : i # j => l[i].word # l[j].word}
           : n \in 0 .. MaxWords}

\* The value of get() when the key is missing.
DefaultOf(field) == IF field = "pos" THEN <<0, 0>> ELSE 0

\* {i[0][0]: i[...] for i in layout}.get(word, default): the comprehension
\* keeps the last entry of a word.
DictGet(layout, field, word, default) ==
    LET hits == {i \in DOMAIN layout : layout[i].word = word}
    IN  IF hits = {} THEN default
        ELSE layout[CHOOSE i \in hits : \A j \in hits : j <= i][field]

\* ref.get(word, default) if transfer_<field> else item[<field>]
TransferOwnDefault(ref_layout, field, item, flag) ==
    IF flag THEN DictGet(ref_layout, field, item.word, item[field])
    ELSE item[field]
TransferAlways(ref_layout, field, item, flag) ==
    DictGet(ref_layout, field, item.word, DefaultOf(field))
TransferField(ref_layout, field, item, flag) ==
    IF flag THEN DictGet(ref_layout, field, item.word, DefaultOf(field))
    ELSE item[field]

\* newitem = ((word, unk), fs, pos, or_, col)
NewItem(ref_layout, item, flags) ==
    [word |-> item.word,
     unk |-> TransferField(ref_layout, "unk", item, flags.unk),
     fs |-> TransferField(ref_layout, "fs", item, flags.fs),
     pos |-> TransferField(ref_layout, "pos", item, flags.pos),
     or |-> TransferField(ref_layout, "or", item, flags.or),
     col |-> TransferField(ref_layout, "col", item, flags.col)]

\* The heap after transfer_stats_between_wc(reference_cloud, target_cloud, ...).
\* The five dictionaries are built from reference_cloud.layout_ before the
\* loop assigns target_cloud.layout_[i].
transfer_into_reference(heap, reference_cloud, target_cloud, flags) ==
    LET target_layout == heap[target_cloud]
    IN  [heap EXCEPT ![reference_cloud] =
            [i \in DOMAIN heap[reference_cloud] |->
                NewItem(target_layout, heap[reference_cloud][i], flags)]]
transfer_over_reference(heap, reference_cloud, target_cloud, flags) ==
    LET ref_layout == heap[reference_cloud]
    IN  [heap EXCEPT ![target_cloud] =
            [i \in DOMAIN ref_layout |-> NewItem(ref_layout, ref_layout[i], flags)]]
transfer_stats_between_wc(heap, reference_cloud, target_cloud, flags) ==
    LET ref_layout == heap[reference_cloud]
    IN  [heap EXCEPT ![target_cloud] =
            [i \in DOMAIN heap[target_cloud] |->
                NewItem(ref_layout, heap[target_cloud][i], flags)]]

NoFlags == [f \in Fields |-> FALSE]
NoWcCall == [fn |-> "none", reference_cloud |-> "cloud1",
             target_cloud |-> "cloud1", flags |-> NoFlags,
             before |-> [c \in CloudIds |-> <<>>]]

CloudIdle ==
    /\ clouds = [c \in CloudIds |-> <<>>]
    /\ wc_call = NoWcCall
    /\ wc_ret = "None"
    /\ wc_outcome = "none"

CloudInit ==
    /\ clouds \in [CloudIds -> Layouts]
    /\ wc_call = NoWcCall
    /\ wc_ret = "None"
    /\ wc_outcome = "none"

TransferStatsBetweenWc ==
    /\ wc_call.fn = "none"
    /\ \E reference_cloud \in CloudIds, target_cloud \in CloudIds,
          flags \in [Fields -> BOOLEAN] :
           /\ wc_call' = [fn |-> "transfer_stats_between_wc",
                          reference_cloud |-> reference_cloud,
                          target_cloud |-> target_cloud,
                          flags |-> flags, before |-> clouds]
           /\ clouds' = transfer_stats_between_wc(clouds, reference_cloud,
                                                  target_cloud, flags)
           /\ wc_ret' = target_cloud
           /\ wc_outcome' = "ok"
    /\ UNCHANGED <<canvasVars, shapeVars, framesVars, driverVars, repoVars>>

CloudNext == TransferStatsBetweenWc

(***************************************************************************)
(* Floating-point numbers.  Python floats and np.float64 are IEEE 754      *)
(* binary64: a sign, a 53-bit significand and an exponent, or a zero, an   *)
(* infinity or a NaN; every operation rounds its exact result to nearest,  *)
(* ties to even.  A significand is held in two limbs <<hi, lo>>, of value  *)
(* hi * LimbBase + lo, so that no intermediate value passes 2^31.  Shifts   *)
(* move all their bits at once.                                            *)
(***************************************************************************)
MantissaBits == 53
LimbBits == 27
LimbBase == 2 ^ LimbBits
\* hi limb of the smallest and of the first too large 53-bit significand
HiMin == 2 ^ (MantissaBits - 28)
HiLimit == 2 ^ (MantissaBits - 27)

Nat2Norm(hi, lo) == <<hi + lo \div LimbBase, lo % LimbBase>>
Nat2Add(x, y) == Nat2Norm(x[1] + y[1], x[2] + y[2])
Nat2Double(x) == Nat2Add(x, x)
Nat2Half(x) == <<x[1] \div 2, (x[1] % 2) * (LimbBase \div 2) + x[2] \div 2>>
Nat2Odd(x) == x[2] % 2 = 1
Nat2Inc(x) == Nat2Norm(x[1], x[2] + 1)
Nat2Geq(x, y) == x[1] > y[1] \/ (x[1] = y[1] /\ x[2] >= y[2])
Nat2Sub(x, y) ==
    IF x[2] >= y[2] THEN <<x[1] - y[1], x[2] - y[2]>>
    ELSE <<x[1] - y[1] - 1, x[2] + LimbBase - y[2]>>
RECURSIVE Nat2Times(_, _)
Nat2Times(x, k) ==
    IF k = 0 THEN <<0, 0>>
    ELSE LET half == Nat2Double(Nat2Times(x, k \div 2))
         IN  IF k % 2 = 1 THEN Nat2Add(half, x) ELSE half

\* The number of bits of n >= 0, none for 0.
BitLength(n) ==
    IF n >= 2 ^ 30 THEN 31 ELSE Cardinality({b \in 0 .. 29 : 2 ^ b <= n})
Nat2BitLength(x) ==
    IF x[1] > 0 THEN LimbBits + BitLength(x[1]) ELSE BitLength(x[2])

\* x shifted left by n <= LimbBits bits
Nat2ShiftLimb(x, n) ==
    <<x[1] * 2 ^ n + x[2] \div 2 ^ (LimbBits - n),
      (x[2] % 2 ^ (LimbBits - n)) * 2 ^ n>>

\* x shifted right by n bits, and whether a set bit was lost on the way
Nat2ShiftRight(x, n) ==
    IF n <= LimbBits
    THEN <<x[1] \div 2 ^ n, (x[1] % 2 ^ n) * 2 ^ (LimbBits - n) + x[2] \div 2 ^ n>>
    ELSE IF n <= LimbBits + 30 THEN Nat2Norm(0, x[1] \div 2 ^ (n - LimbBits))
    ELSE <<0, 0>>
Nat2Lost(x, n) ==
    IF n <= LimbBits THEN x[2] % 2 ^ n # 0
    ELSE IF n <= LimbBits + 30 THEN x[2] # 0 \/ x[1] % 2 ^ (n - LimbBits) # 0
    ELSE x # <<0, 0>>

Finite(neg, m, e) ==
    [cls |-> "finite", neg |-> neg, hi |-> m[1], lo |-> m[2], exp |-> e]
FloatZero(neg) == [cls |-> "zero", neg |-> neg, hi |-> 0, lo |-> 0, exp |-> 0]
FloatInf(neg) == [cls |-> "inf", neg |-> neg, hi |-> 0, lo |-> 0, exp |-> 0]
FloatNaN == [cls |-> "nan", neg |-> FALSE, hi |-> 0, lo |-> 0, exp |-> 0]
Mantissa(x) == <<x.hi, x.lo>>

\* m * 2^e with m >= 2^53: drop low bits, rounding to nearest, ties to even.
\* guard is the last bit dropped, sticky whether a bit dropped before it was set.
RoundShift(m, e, guard, sticky) ==
    LET n == IF m[1] >= HiLimit THEN Nat2BitLength(m) - MantissaBits ELSE 0
        kept == Nat2ShiftRight(m, n)
        last == IF n = 0 THEN guard ELSE Nat2Odd(Nat2ShiftRight(m, n - 1))
        rest == IF n = 0 THEN sticky ELSE sticky \/ guard \/ Nat2Lost(m, n - 1)
        up == last /\ (rest \/ Nat2Odd(kept))
        r == IF up THEN Nat2Inc(kept) ELSE kept
    IN  IF r[1] >= HiLimit THEN <<Nat2Half(r), e + n + 1>> ELSE <<r, e + n>>

\* m shifted left by n bits
ShiftLeft(m, n) ==
    IF n <= LimbBits THEN Nat2ShiftLimb(m, n)
    ELSE Nat2ShiftLimb(Nat2ShiftLimb(m, LimbBits), n - LimbBits)

\* m * 2^e with 0 < m < 2^53: the same value with m in [2^52, 2^53).
ScaleUp(m, e) ==
    LET n == MantissaBits - Nat2BitLength(m)
    IN  <<ShiftLeft(m, n), e - n>>

\* The float nearest to m * 2^e.
FloatOf(neg, m, e) ==
    IF m = <<0, 0>> THEN FloatZero(neg)
    ELSE LET n == IF m[1] >= HiLimit THEN RoundShift(m, e, FALSE, FALSE)
                  ELSE ScaleUp(m, e)
         IN  Finite(neg, n[1], n[2])

\* float(k) of a Python int k >= 0
FloatOfNat(k) == FloatOf(FALSE, Nat2Norm(0, k), 0)

\* One more quotient bit of r / d by long division: <<quotient, remainder>>.
DivBit(q, r, d) ==
    LET r2 == Nat2Double(r)
        bit == Nat2Geq(r2, d)
    IN  <<IF bit THEN Nat2Inc(Nat2Double(q)) ELSE Nat2Double(q),
          IF bit THEN Nat2Sub(r2, d) ELSE r2>>

\* n more quotient bits: the first half of them, then the others.
RECURSIVE DivBits(_, _, _, _)
DivBits(q, r, d, n) ==
    IF n = 0 THEN <<q, r>>
    ELSE IF n = 1 THEN DivBit(q, r, d)
    ELSE CHOOSE qr \in {DivBits(half[1], half[2], d, n - n \div 2) :
                            half \in {DivBits(q, r, d, n \div 2)}} :
             TRUE

\* x / y of two finite non-zero floats, sign aside.
DivFinite(neg, x, y) ==
    LET mx == Mantissa(x)
        my == Mantissa(y)
        ge == Nat2Geq(mx, my)
        qr == IF ge THEN DivBits(<<0, 1>>, Nat2Sub(mx, my), my, MantissaBits - 1)
              ELSE DivBits(<<0, 0>>, mx, my, MantissaBits)
        e == IF ge THEN x.exp - y.exp - (MantissaBits - 1)
             ELSE x.exp - y.exp - MantissaBits
        twice == Nat2Double(qr[2])
        up == IF twice = my THEN Nat2Odd(qr[1]) ELSE Nat2Geq(twice, my)
        q == IF up THEN Nat2Inc(qr[1]) ELSE qr[1]
    IN  IF q[1] >= HiLimit THEN Finite(neg, Nat2Half(q), e + 1)
        ELSE Finite(neg, q, e)

\* x / y of np.float64: division by zero gives inf or nan, no exception.
FloatDiv(x, y) ==
    LET neg == x.neg # y.neg
    IN  CASE x.cls = "nan" \/ y.cls = "nan" -> FloatNaN
          [] x.cls = "inf" /\ y.cls = "inf" -> FloatNaN
          [] x.cls = "zero" /\ y.cls = "zero" -> FloatNaN
          [] x.cls = "inf" -> FloatInf(neg)
          [] y.cls = "inf" -> FloatZero(neg)
          [] y.cls = "zero" -> FloatInf(neg)
          [] x.cls = "zero" -> FloatZero(neg)
          [] OTHER -> DivFinite(neg, x, y)

\* k * y of a Python int k >= 0 and an np.float64 y
NatTimesFloat(k, y) ==
    CASE y.cls = "nan" -> FloatNaN
      [] y.cls = "inf" -> IF k = 0 THEN FloatNaN ELSE FloatInf(y.neg)
      [] y.cls = "zero" -> FloatZero(y.neg)
      [] OTHER -> IF k = 0 THEN FloatZero(y.neg)
                  ELSE FloatOf(y.neg, Nat2Times(Mantissa(y), k), y.exp)

\* a / b of Python ints a >= 0, b > 0: the float nearest to the quotient.
NatDivNat(a, b) ==
    IF a = 0 THEN FloatZero(FALSE)
    ELSE DivFinite(FALSE, FloatOfNat(a), FloatOfNat(b))

\* m shifted right by n bits; a bit lost on the way is kept as the lowest bit.
ShiftRightJam(m, n, sticky) ==
    LET kept == Nat2ShiftRight(m, n)
    IN  IF (sticky \/ Nat2Lost(m, n)) /\ ~Nat2Odd(kept) THEN Nat2Inc(kept)
        ELSE kept

\* k + y of a Python int k and a float 0 <= y < 1: both are brought to the
\* exponent three bits below that of float(|k|), added or subtracted there,
\* and the result is rounded once.
IntPlusFloat(k, y) ==
    LET a == FloatOfNat(IF k < 0 THEN 0 - k ELSE k)
        e == a.exp - 3
        ma == ShiftLeft(Mantissa(a), 3)
        my == IF y.exp >= e THEN ShiftLeft(Mantissa(y), y.exp - e)
              ELSE ShiftRightJam(Mantissa(y), e - y.exp, FALSE)
    IN  CASE k = 0 -> y
          [] y.cls = "zero" -> [a EXCEPT !.neg = k < 0]
          [] k > 0 -> FloatOf(FALSE, Nat2Add(ma, my), e)
          [] OTHER -> FloatOf(TRUE, Nat2Sub(ma, my), e)

\* np.log10(n) of the word counts used, as the C library returns it.
Counts == {0, 1, 10, 17, 100}
Log10(n) ==
    CASE n = 0 -> FloatInf(TRUE)
      [] n = 1 -> FloatZero(FALSE)
      [] n = 10 -> Finite(FALSE, <<33554432, 0>>, -52)
      [] n = 17 -> Finite(FALSE, <<41287014, 88833431>>, -52)
      [] n = 100 -> Finite(FALSE, <<33554432, 0>>, -51)

(***************************************************************************)
(* scale_wordcloud.  It first transfers every attribute but the font size  *)
(* from reference_cloud, then assigns each entry of target_cloud.layout_   *)
(* its scaled font size, in place, entry by entry.                         *)
(***************************************************************************)
\* "sigmoid" stands for any string that is none of the three the code tests.
ScaleTypes == {"linear", "log", "logistic", "sigmoid"}

\* transfer_pos=True, transfer_orientation=True, transfer_unk=True,
\* transfer_color=True; transfer_fontsize keeps its default False
ScaleFlagsNoColor == [f \in Fields |-> f \notin {"fs", "col"}]
ScaleFlags == [f \in Fields |-> f # "fs"]

\* ref_cloud_fs.get(word, 1)
RefFontSizeOrZero(ref_layout, word) == DictGet(ref_layout, "fs", word, 0)
RefFontSize(ref_layout, word) == DictGet(ref_layout, "fs", word, 1)

\* scaled_fs as the two if statements leave it, or the exception raised
\* before newitem[1] = scaled_fs completes.
ScaledFs(ref_fs, target_wordcount, reference_wordcount, scale_type) ==
    CASE scale_type = "linear" ->
             IF reference_wordcount = 0 THEN Raise("ZeroDivisionError")
             ELSE Return(NatDivNat(ref_fs * target_wordcount,
                                   reference_wordcount))
      [] scale_type = "log" ->
             Return(FloatDiv(NatTimesFloat(ref_fs, Log10(target_wordcount)),
                             Log10(reference_wordcount)))
      [] scale_type = "logistic" -> Raise("AssertionError")
      [] OTHER -> Raise("UnboundLocalError")

\* ScaledFs over the font sizes and counts of the model, computed once.
FontSizes == {0, 1} \cup {Entry(w, k).fs : w \in Words, k \in Styles}
ScaledFsOf ==
    [ref_fs \in FontSizes, target_wordcount \in Counts,
     reference_wordcount \in Counts, scale_type \in ScaleTypes |->
        ScaledFs(ref_fs, target_wordcount, reference_wordcount, scale_type)]

\* for i, item in enumerate(target_cloud.layout_), from entry i on; ref_layout
\* is the reference layout as ref_cloud_fs was built from it.
RECURSIVE ScaleEntries(_, _, _, _, _, _)
ScaleEntries(layout, ref_layout, i, target_wordcount, reference_wordcount, scale_type) ==
    IF i > Len(layout) THEN [outcome |-> "ok", layout |-> layout]
    ELSE LET scaled_fs == ScaledFsOf[RefFontSize(ref_layout, layout[i].word),
                                     target_wordcount, reference_wordcount,
                                     scale_type]
         IN  IF scaled_fs.outcome # "ok"
             THEN [outcome |-> scaled_fs.outcome, layout |-> layout]
             ELSE ScaleEntries([layout EXCEPT ![i].fs = scaled_fs.value],
                               ref_layout, i + 1, target_wordcount,
                               reference_wordcount, scale_type)

\* A scale_wordcloud that leaves its argument alone and returns another object.
scale_into_copy(heap, target_cloud, reference_cloud, target_wordcount, reference_wordcount, scale_type) ==
    LET transferred == transfer_stats_between_wc(heap, reference_cloud,
                                                 target_cloud, ScaleFlags)
        loop == ScaleEntries(transferred[target_cloud],
                             transferred[reference_cloud], 1,
                             target_wordcount, reference_wordcount, scale_type)
        copy == CHOOSE c \in CloudIds : c # target_cloud
    IN  [heap |-> [heap EXCEPT ![copy] = loop.layout],
         outcome |-> loop.outcome,
         value |-> IF loop.outcome = "ok" THEN copy ELSE "None"]

\* The heap after scale_wordcloud(target_cloud, reference_cloud, ...), how the
\* call ended and the object it returned.
scale_wordcloud(heap, target_cloud, reference_cloud, target_wordcount, reference_wordcount, scale_type) ==
    LET transferred == transfer_stats_between_wc(heap, reference_cloud,
                                                 target_cloud, ScaleFlags)
        loop == ScaleEntries(transferred[target_cloud],
                             transferred[reference_cloud], 1,
                             target_wordcount, reference_wordcount, scale_type)
    IN  [heap |-> [transferred EXCEPT ![target_cloud] = loop.layout],
         outcome |-> loop.outcome,
         value |-> IF loop.outcome = "ok" THEN target_cloud ELSE "None"]

\* The clouds scale_wordcloud is given are laid out over two words.
ScaleWords == {"a", "b"}
ScaleLayouts == {l \in Layouts : \A i \in DOMAIN l : l[i].word \in ScaleWords}

ScaleInit ==
    /\ clouds \in [CloudIds -> ScaleLayouts]
    /\ wc_call = NoWcCall
    /\ wc_ret = "None"
    /\ wc_outcome = "none"

ScaleWordcloud ==
    /\ wc_call.fn = "none"
    /\ \E target_cloud \in CloudIds, reference_cloud \in CloudIds,
          target_wordcount \in Counts, reference_wordcount \in Counts,
          scale_type \in ScaleTypes :
           \E r \in {scale_wordcloud(clouds, target_cloud, reference_cloud,
                                      target_wordcount, reference_wordcount,
                                      scale_type)} :
               /\ wc_call' = [fn |-> "scale_wordcloud",
                              reference_cloud |-> reference_cloud,
                              target_cloud |-> target_cloud,
                              flags |-> ScaleFlags, before |-> clouds,
                              target_wordcount |-> target_wordcount,
                              reference_wordcount |-> reference_wordcount,
                              scale_type |-> scale_type]
               /\ clouds' = r.heap
               /\ wc_outcome' = r.outcome
               /\ wc_ret' = r.value
    /\ UNCHANGED <<canvasVars, shapeVars, framesVars, driverVars, repoVars>>

ScaleNext == ScaleWordcloud

(***************************************************************************)
(* The frame loops test_all_graphs and test_header.  Each walks the Stats  *)
(* of ./stats/*.pkl oldest first and saves one figure per frame; one loop  *)
(* iteration is one action.  A Stat is a commit: its hash, its date and    *)
(* its reduced_word_Counter.                                               *)
(***************************************************************************)
commit_status_messages ==
    ("5ed030fd8df9a137338766ca9cdb01d4c3c6a950" :> "Started writing") @@
    ("47c4a42c8c1ee33aa003a48ea91e734175a5ecfa" :> "Added library catalog info") @@
    ("e6bf1efcfffb6301457da6d66bc7a29d6a99e29c" :>
         "Started back and forth to fit institutional formatting requirements") @@
    ("30937f61271564f7d5b3fd59a852ee590e101115" :>
         "Final approval - Diploma incoming!")

\* Commits the table has no message for.
PlainShas == {"0b5c1d7e", "9f2a6c43"}
Shas == DOMAIN commit_status_messages \cup PlainShas

\* The words counted in each commit.
reduced_word_Counter(sha) ==
    CASE sha = "5ed030fd8df9a137338766ca9cdb01d4c3c6a950" -> ("b" :> 1)
      [] sha = "47c4a42c8c1ee33aa003a48ea91e734175a5ecfa" -> ("a" :> 10)
      [] sha = "e6bf1efcfffb6301457da6d66bc7a29d6a99e29c" ->
             ("a" :> 10) @@ ("b" :> 7)
      [] sha = "30937f61271564f7d5b3fd59a852ee590e101115" ->
             ("A" :> 60) @@ ("b" :> 40)
      [] sha = "0b5c1d7e" -> ("b" :> 9) @@ ("a" :> 1)
      [] sha = "9f2a6c43" -> ("a" :> 12) @@ ("A" :> 5)

\* stat.word_count of each commit
word_count(sha) ==
    CASE sha = "5ed030fd8df9a137338766ca9cdb01d4c3c6a950" -> 3
      [] sha = "47c4a42c8c1ee33aa003a48ea91e734175a5ecfa" -> 25
      [] sha = "e6bf1efcfffb6301457da6d66bc7a29d6a99e29c" -> 41
      [] sha = "30937f61271564f7d5b3fd59a852ee590e101115" -> 230
      [] sha = "0b5c1d7e" -> 19
      [] sha = "9f2a6c43" -> 36

Stat(sha, date) ==
    [commit_hash |-> sha, date |-> date, word_count |-> word_count(sha),
     reduced_word_Counter |-> reduced_word_Counter(sha)]

\* start_timestamp: int = 1531090905
DefaultStartTimestamp == 1531090905

\* Commit dates, in seconds since the epoch.  The oldest commit was made 30
\* hours before the default start, at it, or 6 hours after it; each later
\* commit follows 36 hours after the one before.
FirstDates ==
    {DefaultStartTimestamp - 30 * 60 * 60, DefaultStartTimestamp,
     DefaultStartTimestamp + 6 * 60 * 60}
CommitGap == 36 * 60 * 60
DateOf(first, i) == first + (i - 1) * CommitGap
Dates == {DateOf(first, i) : first \in FirstDates, i \in 1 .. MaxSnapshots}

\* date - start_date of two datetimes of one time zone: a timedelta, held
\* as days and 0 <= seconds < 24 * 60 * 60.
SecondsPerDay == 24 * 60 * 60
timedelta(date, start_timestamp) ==
    [days |-> (date - start_timestamp) \div SecondsPerDay,
     seconds |-> (date - start_timestamp) % SecondsPerDay]

\* delta.days + delta.seconds / 60 / 60 / 24
delta_days(delta) ==
    IntPlusFloat(delta.days,
                 FloatDiv(FloatDiv(NatDivNat(delta.seconds, 60), FloatOfNat(60)),
                          FloatOfNat(24)))

\* delta_days over the dates of the model and the start timestamps a call
\* can be given, computed once.
StartTimestamps == {DefaultStartTimestamp} \cup FirstDates
DeltaDaysOf ==
    [date \in Dates, start_timestamp \in StartTimestamps |->
        delta_days(timedelta(date, start_timestamp))]

\* add_stats_graph(ax_stats, list_of_Stats, start_timestamp): the series
\* ax_stats.plot draws, list_deltas_days against list_word_counts.
add_stats_graph(stats, start_timestamp) ==
    [x |-> [k \in DOMAIN stats |-> DeltaDaysOf[stats[k].date, start_timestamp]],
     y |-> [k \in DOMAIN stats |-> stats[k].word_count]]

\* list_of_Stats[: i + 1]
StatsBefore(stats, i) == SubSeq(stats, 1, i)
StatsUpTo(stats, i) == SubSeq(stats, 1, i + 1)

\* commit_status_messages.get(commit_hash, None): <<message>>, or None
GetMessage(commit_hash) ==
    IF commit_hash \in DOMAIN commit_status_messages
    THEN <<commit_status_messages[commit_hash]>>
    ELSE None

\* not message
NotMessage(message) == message = None \/ message = <<"">>

\* list_of_Stats.sort(key=lambda x: x.date)
RECURSIVE SortByDate(_)
SortByDate(stats) ==
    IF stats = {} THEN <<>>
    ELSE LET first == CHOOSE x \in stats : \A y \in stats : x.date <= y.date
         IN  <<first>> \o SortByDate(stats \ {first})

\* sum(word_Counter.values())
RECURSIVE SumValues(_)
SumValues(word_Counter) ==
    IF DOMAIN word_Counter = {} THEN 0
    ELSE LET w == CHOOSE w \in DOMAIN word_Counter : TRUE
         IN  word_Counter[w]
                 + SumValues([v \in DOMAIN word_Counter \ {w} |-> word_Counter[v]])

\* The words of a counter, most frequent first.
RECURSIVE ByFrequency(_)
ByFrequency(word_Counter) ==
    IF DOMAIN word_Counter = {} THEN <<>>
    ELSE LET w == CHOOSE w \in DOMAIN word_Counter :
                      \A v \in DOMAIN word_Counter : word_Counter[v] <= word_Counter[w]
         IN  <<w>> \o ByFrequency([v \in DOMAIN word_Counter \ {w} |-> word_Counter[v]])

\* create_wordcloud(word_Counter).layout_: one entry per word, the most
\* frequent word in the larger style.
create_wordcloud(word_Counter) ==
    LET words == ByFrequency(word_Counter)
    IN  [i \in DOMAIN words |-> Entry(words[i], IF i = 1 THEN 2 ELSE 1)]

\* The objects the loop of test_all_graphs holds: reference_cloud, and cloud,
\* which each frame creates anew.
reference_cloud_id == "cloud1"
cloud_id == "cloud2"

FramesIdle ==
    /\ stats_pkl = {}
    /\ fr_call = "none"
    /\ list_of_Stats = <<>>
    /\ fr_i = 0
    /\ previous_message = <<>>
    /\ figs = <<>>
    /\ fr_outcome = "none"

\* Up to MaxSnapshots commits were pickled; dates follow commit order.
FramesInit ==
    /\ \E n \in 0 .. MaxSnapshots, first \in FirstDates :
           \E order \in [1 .. n -> Shas] :
               /\ \A i, j \in 1 .. n : i # j => order[i] # order[j]
               /\ stats_pkl = {Stat(order[i], DateOf(first, i)) : i \in 1 .. n}
    /\ fr_call = "none"
    /\ list_of_Stats = <<>>
    /\ fr_i = 0
    /\ previous_message = <<>>
    /\ figs = <<>>
    /\ fr_outcome = "none"

\* message = commit_status_messages.get(stat.commit_hash, None)
\* if not message: message = previous_message
\* else: previous_message = message
\* The value both names hold afterwards, as <<value>>; <<>> when the if
\* statement read previous_message while it was unbound.
CarryMessage(commit_hash, previous) ==
    LET message == GetMessage(commit_hash)
    IN  IF NotMessage(message) THEN previous ELSE message

\* test_all_graphs up to its for statement.
TestAllGraphsCall ==
    /\ fr_call = "none"
    /\ fr_call' = "test_all_graphs"
    /\ list_of_Stats' = SortByDate(stats_pkl)
    /\ IF stats_pkl = {}
       THEN \* list_of_Stats[-1]
            /\ fr_outcome' = "IndexError"
            /\ UNCHANGED <<previous_message, clouds>>
       ELSE /\ fr_outcome' = "running"
            /\ clouds' = [clouds EXCEPT ![reference_cloud_id] =
                   create_wordcloud(list_of_Stats'[Len(list_of_Stats')]
                                        .reduced_word_Counter)]
            /\ previous_message' = <<"">>
    /\ UNCHANGED <<stats_pkl, fr_i, figs, wc_call, wc_ret, wc_outcome,
                   canvasVars, shapeVars, driverVars, repoVars>>

\* One iteration of the for loop of test_all_graphs, for i = fr_i.
TestAllGraphsFrame ==
    /\ fr_call = "test_all_graphs"
    /\ fr_outcome = "running"
    /\ fr_i < Len(list_of_Stats)
    /\ LET i == fr_i
           stat == list_of_Stats[i + 1]
           created == [clouds EXCEPT ![cloud_id] =
                           create_wordcloud(stat.reduced_word_Counter)]
           target_wc == SumValues(stat.reduced_word_Counter)
           reference_wc ==
               SumValues(list_of_Stats[Len(list_of_Stats)].reduced_word_Counter)
           message == CarryMessage(stat.commit_hash, previous_message)
           plotted == add_stats_graph(StatsUpTo(list_of_Stats, i),
                                      DefaultStartTimestamp)
       IN  IF i + 1 > Len(list_of_Stats) - 3
           THEN \* continue
                /\ fr_i' = fr_i + 1
                /\ UNCHANGED <<previous_message, figs, fr_outcome, cloudVars>>
           ELSE \E scaled_cl \in {scale_wordcloud(created, cloud_id,
                                       reference_cloud_id, target_wc,
                                       reference_wc, "log")} :
                /\ wc_call' = [fn |-> "scale_wordcloud",
                               reference_cloud |-> reference_cloud_id,
                               target_cloud |-> cloud_id,
                               flags |-> ScaleFlags, before |-> created,
                               target_wordcount |-> target_wc,
                               reference_wordcount |-> reference_wc,
                               scale_type |-> "log"]
                /\ clouds' = scaled_cl.heap
                /\ wc_outcome' = scaled_cl.outcome
                /\ wc_ret' = scaled_cl.value
                /\ IF scaled_cl.outcome # "ok"
                   THEN /\ fr_outcome' = scaled_cl.outcome
                        /\ UNCHANGED <<fr_i, previous_message, figs>>
                   ELSE IF message = <<>>
                   THEN /\ fr_outcome' = "UnboundLocalError"
                        /\ UNCHANGED <<fr_i, previous_message, figs>>
                   ELSE /\ previous_message' = message
                        /\ figs' = Append(figs,
                               [i |-> i, commit_hash |-> stat.commit_hash,
                                message |-> message[1],
                                stats_x |-> plotted.x, stats_y |-> plotted.y,
                                layout_ |-> scaled_cl.heap[scaled_cl.value]])
                        /\ fr_i' = fr_i + 1
                        /\ UNCHANGED fr_outcome
    /\ UNCHANGED <<stats_pkl, fr_call, list_of_Stats, canvasVars, shapeVars,
                   driverVars, repoVars>>

\* test_header up to its for statement; the assignment of previous_message
\* is commented out.
TestHeaderCall ==
    /\ fr_call = "none"
    /\ fr_call' = "test_header"
    /\ list_of_Stats' = SortByDate(stats_pkl)
    /\ fr_outcome' = IF stats_pkl = {} THEN "IndexError" ELSE "running"
    /\ UNCHANGED <<stats_pkl, fr_i, previous_message, figs, cloudVars,
                   canvasVars, shapeVars, driverVars, repoVars>>

\* One iteration of the for loop of test_header, for i = fr_i.
TestHeaderFrame ==
    /\ fr_call = "test_header"
    /\ fr_outcome = "running"
    /\ fr_i < Len(list_of_Stats)
    /\ LET i == fr_i
           stat == list_of_Stats[i + 1]
           message == CarryMessage(stat.commit_hash, previous_message)
       IN  IF message = <<>>
           THEN /\ fr_outcome' = "UnboundLocalError"
                /\ UNCHANGED <<fr_i, previous_message, figs>>
           ELSE /\ previous_message' = message
                /\ figs' = Append(figs, [i |-> i,
                                          commit_hash |-> stat.commit_hash,
                                          message |-> message[1]])
                /\ fr_i' = fr_i + 1
                /\ UNCHANGED fr_outcome
    /\ UNCHANGED <<stats_pkl, fr_call, list_of_Stats, cloudVars, canvasVars,
                   shapeVars, driverVars, repoVars>>

\* The for loop is used up: the function returns.
FrReturn ==
    /\ fr_call # "none"
    /\ fr_outcome = "running"
    /\ fr_i = Len(list_of_Stats)
    /\ fr_outcome' = "ok"
    /\ UNCHANGED <<stats_pkl, fr_call, list_of_Stats, fr_i, previous_message,
                   figs, cloudVars, canvasVars, shapeVars, driverVars, repoVars>>

FramesNext ==
    \/ TestAllGraphsCall
    \/ TestAllGraphsFrame
    \/ TestHeaderCall
    \/ TestHeaderFrame
    \/ FrReturn

(***************************************************************************)
(* The batch driver collate_all: for every commit of the list, in order,   *)
(* skip it when its composite exists, else collate_pdf_by_sha(sha, 8, 12). *)
(* One loop iteration is one action.                                       *)
(***************************************************************************)
CollateRows == 8
CollateCols == 12

\* Commit number k of the list.
CommitSha(k) == <<"sha", k>>

\* Page counts of a commit: none, a few, or one more than the grid holds.
PageCounts == {0, 2, CollateRows * CollateCols + 1}

\* pdf_pages_path/<sha>/ holding n pages
PagesOf(n) == [s \in 1 .. n |-> Tile(s, <<1, 1>>, "pattern")]

DriverIdle ==
    /\ commits = <<>>
    /\ pages_of = <<>>
    /\ collated_of = <<>>
    /\ ca_i = 0
    /\ ca_outcome = "none"
    /\ ca_runs = 0
    /\ ca_previous = "none"
    /\ ca_before = <<>>
    /\ ca_composed = {}

DriverInit ==
    /\ \E n \in 0 .. MaxCommits :
           /\ commits = [k \in 1 .. n |-> CommitSha(k)]
           /\ \E counts \in [1 .. n -> PageCounts] :
                  pages_of = [k \in 1 .. n |-> PagesOf(counts[k])]
           /\ collated_of \in [1 .. n -> {NoFile, StaleImage}]
    /\ ca_i = 0
    /\ ca_outcome = "none"
    /\ ca_runs = 0
    /\ ca_previous = "none"
    /\ ca_before = <<>>
    /\ ca_composed = {}

\* (Path(collated_pdfs_path) / (commit["sha"] + ".png")).is_file()
NeverProcessed(saved) == FALSE
AlreadyProcessed(saved) == saved # NoFile

\* collate_all up to its for statement: a first run, or a run after the one
\* before has ended.
CollateAllCall ==
    /\ ca_outcome # "running"
    /\ ca_runs < MaxRuns
    /\ ca_outcome' = "running"
    /\ ca_i' = 0
    /\ ca_runs' = ca_runs + 1
    /\ ca_previous' = ca_outcome
    /\ ca_before' = collated_of
    /\ ca_composed' = {}
    /\ UNCHANGED <<commits, pages_of, collated_of, canvasVars, shapeVars,
                   cloudVars, framesVars, repoVars>>

\* One iteration of the for loop, for commit number k = ca_i + 1.
CollateAllIterate ==
    /\ ca_outcome = "running"
    /\ ca_i < Len(commits)
    /\ \E k \in {ca_i + 1} :
           IF AlreadyProcessed(collated_of[k])
           THEN \* Already processed, skipping.
                /\ ca_i' = ca_i + 1
                /\ UNCHANGED <<ca_outcome, collated_of, ca_composed>>
           ELSE \E r \in {collate_pdf_by_sha(pages_of[k], collated_of[k],
                                              CollateRows, CollateCols)} :
                IF r.outcome = "ok"
                THEN /\ collated_of' = [collated_of EXCEPT ![k] = r.saved]
                     /\ ca_composed' = ca_composed \cup {k}
                     /\ ca_i' = ca_i + 1
                     /\ UNCHANGED ca_outcome
                ELSE \* nothing catches the exception: it ends collate_all
                     /\ ca_outcome' = r.outcome
                     /\ UNCHANGED <<ca_i, collated_of, ca_composed>>
    /\ UNCHANGED <<commits, pages_of, ca_runs, ca_previous, ca_before,
                   canvasVars, shapeVars, cloudVars, framesVars, repoVars>>

\* The for loop is used up: collate_all returns.
CollateAllReturn ==
    /\ ca_outcome = "running"
    /\ ca_i = Len(commits)
    /\ ca_outcome' = "ok"
    /\ UNCHANGED <<commits, pages_of, collated_of, ca_i, ca_runs, ca_previous,
                   ca_before, ca_composed, canvasVars, shapeVars, cloudVars,
                   framesVars, repoVars>>

DriverNext == CollateAllCall \/ CollateAllIterate \/ CollateAllReturn

(***************************************************************************)
(* main.py: create_stats_from_sha and compile_pdf_from_sha check a commit   *)
(* of the thesis repository out and work on its files;                     *)
(* test_compile_all_pdfs and test_create_all_stats call them for every     *)
(* commit of the list.  A call is one action, and so is a loop iteration.  *)
(* Of the repository the revision checked out is modelled, of the file     *)
(* system the working directory and the pdfs compiled; the contents of the *)
(* working tree and the Stats files written are not.                       *)
(***************************************************************************)
\* The revision checked out before anything ran: a commit of the list, or
\* the tip of the branch.
BranchTip == <<"sha", 0>>
Revisions == {BranchTip} \cup {CommitSha(k) : k \in 1 .. MaxCommits}

\* What the files of a commit let compile_pdf_from_sha do: "pdf" when the
\* four xelatex runs leave main.pdf, "no_pdf" when they leave none, "no_tex"
\* when the commit has no main.tex.
Builds == {"pdf", "no_pdf", "no_tex"}

Repo(revision, dir, compiled) == [head |-> revision, cwd |-> dir, pdfs |-> compiled]

\* os.path.isfile(f"./pdfs/{sha}.pdf"): the pdfs lie in ../FilmeTese/pdfs
IsCompiled(repo, sha) == repo.cwd = "FilmeTese" /\ sha \in repo.pdfs

\* compile_pdf_from_sha(sha, output_path, repo, texfile_location): the
\* repository and the files after the call, and how it ended.
compile_pdf_from_sha(repo, sha, build) ==
    LET starting_sha == repo.head
        checked_out == [repo EXCEPT !.head = sha]
        in_tese == [checked_out EXCEPT !.cwd = "Tese"]
    IN  IF IsCompiled(checked_out, sha)
        THEN \* Already compiled: return
             [repo |-> checked_out, outcome |-> "ok"]
        ELSE IF build = "no_tex"
        THEN \* open("main.tex", "r")
             [repo |-> in_tese, outcome |-> "FileNotFoundError"]
        ELSE IF build = "no_pdf"
        THEN \* shutil.copy("main.pdf", ...)
             [repo |-> in_tese, outcome |-> "FileNotFoundError"]
        ELSE [repo |-> Repo(starting_sha, "FilmeTese", repo.pdfs \cup {sha}),
              outcome |-> "ok"]

\* create_stats_from_sha(sha, repo, filename_pattern, merge) with tex_files
\* the number of files the pattern matches: both branches of `if merge`
\* return or raise, and the checkout of starting_sha after them is never
\* reached.
create_stats_from_sha(repo, sha, tex_files, merge) ==
    LET starting_sha == repo.head
        checked_out == [repo EXCEPT !.head = sha]
    IN  IF tex_files < 1
        THEN [repo |-> checked_out, outcome |-> "AssertionError"]
        ELSE IF merge
        THEN \* return [st]
             [repo |-> checked_out, outcome |-> "ok"]
        ELSE \* text=full_text, a local never assigned on this branch
             [repo |-> checked_out, outcome |-> "UnboundLocalError"]

NoRepoCall == [fn |-> "none", sha |-> BranchTip, starting_sha |-> BranchTip]

RepoIdle ==
    /\ head = BranchTip
    /\ cwd = "FilmeTese"
    /\ pdfs = {}
    /\ rp_commits = <<>>
    /\ rp_call = NoRepoCall
    /\ rp_outcome = "none"
    /\ rp_calls = 0
    /\ rp_loop = "none"
    /\ rp_i = 0
    /\ rp_start = BranchTip
    /\ rp_loop_outcome = "none"

\* Any revision is checked out, and some commits of the list have their pdf.
RepoInit ==
    /\ \E n \in 0 .. MaxCommits :
           /\ rp_commits = [k \in 1 .. n |-> CommitSha(k)]
           /\ pdfs \in SUBSET {CommitSha(k) : k \in 1 .. n}
    /\ head \in Revisions
    /\ cwd = "FilmeTese"
    /\ rp_call = NoRepoCall
    /\ rp_outcome = "none"
    /\ rp_calls = 0
    /\ rp_loop = "none"
    /\ rp_i = 0
    /\ rp_start = BranchTip
    /\ rp_loop_outcome = "none"

\* The call sets the repository, the files and the record of the call.
RepoCallDone(fn, sha, r) ==
    /\ rp_call' = [fn |-> fn, sha |-> sha, starting_sha |-> head]
    /\ rp_outcome' = r.outcome
    /\ head' = r.repo.head
    /\ cwd' = r.repo.cwd
    /\ pdfs' = r.repo.pdfs

\* A call of compile_pdf_from_sha for a commit of the list.
CompilePdfFromSha ==
    /\ rp_loop = "none"
    /\ rp_calls < MaxCalls
    /\ rp_calls' = rp_calls + 1
    /\ \E k \in DOMAIN rp_commits, build \in Builds :
           RepoCallDone("compile_pdf_from_sha", rp_commits[k],
                        compile_pdf_from_sha(Repo(head, cwd, pdfs),
                                             rp_commits[k], build))
    /\ UNCHANGED <<rp_commits, rp_loop, rp_i, rp_start, rp_loop_outcome,
                   canvasVars, shapeVars, cloudVars, framesVars, driverVars>>

\* A call of create_stats_from_sha for a commit of the list.
CreateStatsFromSha ==
    /\ rp_loop = "none"
    /\ rp_calls < MaxCalls
    /\ rp_calls' = rp_calls + 1
    /\ \E k \in DOMAIN rp_commits, tex_files \in 0 .. 1, merge \in BOOLEAN :
           RepoCallDone("create_stats_from_sha", rp_commits[k],
                        create_stats_from_sha(Repo(head, cwd, pdfs),
                                              rp_commits[k], tex_files, merge))
    /\ UNCHANGED <<rp_commits, rp_loop, rp_i, rp_start, rp_loop_outcome,
                   canvasVars, shapeVars, cloudVars, framesVars, driverVars>>

\* test_compile_all_pdfs up to its for statement.
TestCompileAllPdfsCall ==
    /\ rp_loop = "none"
    /\ rp_loop' = "test_compile_all_pdfs"
    /\ rp_start' = head
    /\ rp_i' = 0
    /\ rp_loop_outcome' = IF rp_commits = <<>> THEN "IndexError" ELSE "running"
    /\ rp_call' = [fn |-> "test_compile_all_pdfs", sha |-> BranchTip,
                   starting_sha |-> head]
    /\ rp_outcome' = rp_loop_outcome'
    /\ UNCHANGED <<head, cwd, pdfs, rp_commits, rp_calls,
                   canvasVars, shapeVars, cloudVars, framesVars, driverVars>>

\* One iteration of the for loop of test_compile_all_pdfs, for commit number
\* rp_i + 1; an exception of the call ends the loop.
TestCompileAllPdfsIterate ==
    /\ rp_loop = "test_compile_all_pdfs"
    /\ rp_loop_outcome = "running"
    /\ rp_i < Len(rp_commits)
    /\ \E build \in Builds :
           \E r \in {compile_pdf_from_sha(Repo(head, cwd, pdfs),
                                          rp_commits[rp_i + 1], build)} :
               /\ RepoCallDone("compile_pdf_from_sha", rp_commits[rp_i + 1], r)
               /\ IF r.outcome = "ok"
                  THEN rp_i' = rp_i + 1 /\ UNCHANGED rp_loop_outcome
                  ELSE rp_loop_outcome' = r.outcome /\ UNCHANGED rp_i
    /\ UNCHANGED <<rp_commits, rp_calls, rp_loop, rp_start,
                   canvasVars, shapeVars, cloudVars, framesVars, driverVars>>

\* test_create_all_stats up to its for statement: the first commit of the
\* list is checked out.
TestCreateAllStatsCall ==
    /\ rp_loop = "none"
    /\ rp_loop' = "test_create_all_stats"
    /\ rp_start' = head
    /\ rp_i' = 0
    /\ IF rp_commits = <<>>
       THEN rp_loop_outcome' = "IndexError" /\ UNCHANGED head
       ELSE rp_loop_outcome' = "running" /\ head' = rp_commits[1]
    /\ rp_call' = [fn |-> "test_create_all_stats", sha |-> BranchTip,
                   starting_sha |-> head]
    /\ rp_outcome' = rp_loop_outcome'
    /\ UNCHANGED <<cwd, pdfs, rp_commits, rp_calls,
                   canvasVars, shapeVars, cloudVars, framesVars, driverVars>>

\* One iteration of the for loop of test_create_all_stats, for commit number
\* rp_i + 1, with the default merge=True.
TestCreateAllStatsIterate ==
    /\ rp_loop = "test_create_all_stats"
    /\ rp_loop_outcome = "running"
    /\ rp_i < Len(rp_commits)
    /\ \E tex_files \in 0 .. 1 :
           \E r \in {create_stats_from_sha(Repo(head, cwd, pdfs),
                                           rp_commits[rp_i + 1], tex_files,
                                           TRUE)} :
               /\ RepoCallDone("create_stats_from_sha", rp_commits[rp_i + 1], r)
               /\ IF r.outcome = "ok"
                  THEN rp_i' = rp_i + 1 /\ UNCHANGED rp_loop_outcome
                  ELSE rp_loop_outcome' = r.outcome /\ UNCHANGED rp_i
    /\ UNCHANGED <<rp_commits, rp_calls, rp_loop, rp_start,
                   canvasVars, shapeVars, cloudVars, framesVars, driverVars>>

\* The for loop is used up: the function returns.
RpReturn ==
    /\ rp_loop # "none"
    /\ rp_loop_outcome = "running"
    /\ rp_i = Len(rp_commits)
    /\ rp_loop_outcome' = "ok"
    /\ UNCHANGED <<head, cwd, pdfs, rp_commits, rp_call, rp_outcome, rp_calls,
                   rp_loop, rp_i, rp_start,
                   canvasVars, shapeVars, cloudVars, framesVars, driverVars>>

RepoNext ==
    \/ CompilePdfFromSha
    \/ CreateStatsFromSha
    \/ TestCompileAllPdfsCall
    \/ TestCompileAllPdfsIterate
    \/ TestCreateAllStatsCall
    \/ TestCreateAllStatsIterate
    \/ RpReturn

(***************************************************************************)
(* Specifications, one per component; the other components stay idle.      *)
(***************************************************************************)
InitCanvas ==
    CanvasInit /\ ShapeIdle /\ CloudIdle /\ FramesIdle /\ DriverIdle /\ RepoIdle
SpecCanvas == InitCanvas /\ [][CanvasNext]_vars

InitShape ==
    CanvasIdle /\ ShapeIdle /\ CloudIdle /\ FramesIdle /\ DriverIdle /\ RepoIdle
SpecShape == InitShape /\ [][ShapeNext]_vars

InitTransfer ==
    CanvasIdle /\ ShapeIdle /\ CloudInit /\ FramesIdle /\ DriverIdle /\ RepoIdle
SpecTransfer == InitTransfer /\ [][CloudNext]_vars

InitScale ==
    CanvasIdle /\ ShapeIdle /\ ScaleInit /\ FramesIdle /\ DriverIdle /\ RepoIdle
SpecScale == InitScale /\ [][ScaleNext]_vars

InitFrames ==
    CanvasIdle /\ ShapeIdle /\ CloudIdle /\ FramesInit /\ DriverIdle /\ RepoIdle
SpecFrames == InitFrames /\ [][FramesNext]_vars

InitCollateAll ==
    CanvasIdle /\ ShapeIdle /\ CloudIdle /\ FramesIdle /\ DriverInit /\ RepoIdle
SpecCollateAll == InitCollateAll /\ [][DriverNext]_vars

InitRepo ==
    CanvasIdle /\ ShapeIdle /\ CloudIdle /\ FramesIdle /\ DriverIdle /\ RepoInit
SpecRepo == InitRepo /\ [][RepoNext]_vars

(***************************************************************************)
(* Properties of canvas composition (SpecCanvas).                          *)
(***************************************************************************)
CanvasCalled == call.fn # "none"
TileCount == Len(call.pages)
GridCells == call.rows * call.cols
\* The tile at 0-based index k of the list the call was given.
TileOf(k) == pdf_pages[Stem(call.pages[k + 1])]
\* The canvas the call composed: returned by arrange_pages_horizontal,
\* saved at output_path by collate_pdf_by_sha.
Composed == IF call.fn = "arrange_pages_horizontal" THEN ret ELSE collated_png
\* Height and width of one cell of the grid: a tile and its border.
CellH == TileOf(0).h + 2
CellW == TileOf(0).w + 2
\* The pixel at offset c of the cell with row-major index k.
CellPixel(k, c) ==
    Composed.px[<<(k \div call.cols) * CellH + c[1],
                  (k % call.cols) * CellW + c[2]>>]
OnRing(c) ==
    c[1] = 0 \/ c[1] = CellH - 1 \/ c[2] = 0 \/ c[2] = CellW - 1
AllBackground(k) ==
    \A c \in Coords(CellH, CellW) : CellPixel(k, c) = call.background_color

C2_PaddingCellsAreBackground ==
    (CanvasCalled /\ TileCount > 0 /\ GridCells > TileCount) =>
        /\ outcome = "ok"
        /\ \A k \in TileCount .. GridCells - 1 : AllBackground(k)
        /\ \A k \in 0 .. TileCount - 1 : ~AllBackground(k)
        /\ Cardinality({k \in 0 .. GridCells - 1 : AllBackground(k)})
               = GridCells - TileCount

\* C2 witness: two grey tiles on a 2 x 2 grid with grey background, saved by
\* collate_pdf_by_sha: two padding cells.
C2_Witness ==
    /\ call.fn = "collate_pdf_by_sha"
    /\ outcome = "ok"
    /\ TileCount = 2
    /\ call.rows = 2
    /\ call.cols = 2
    /\ TileOf(0).px[<<0, 0>>] = Grey
    /\ AllBackground(3)

\* The exceptions by which the code reports a grid too small for the tiles:
\* the assert of collate_pdf_by_sha, the failed reshape of
\* arrange_pages_horizontal.
InsufficientGridCapacity == {"AssertionError", "ValueError"}
\* The exception of pages[0] on an empty list.
EmptyTileSet == "IndexError"

\* C3: whenever rows*cols < len(tiles), composition by either entry point ends
\* in the error outcome InsufficientGridCapacity: no canvas is returned and
\* nothing is persisted.
C3_TooSmallGridFails ==
    (CanvasCalled /\ GridCells < TileCount) =>
        /\ outcome \in InsufficientGridCapacity
        /\ ret = NoneValue
        /\ collated_png = call.saved_before

\* C3 witness: a direct call with three tiles and a 1 x 2 grid.
C3_Witness ==
    /\ call.fn = "arrange_pages_horizontal"
    /\ TileCount = 3
    /\ call.rows = 1
    /\ call.cols = 2
    /\ outcome = "ValueError"

\* C4: composition over an empty tile list fails with EmptyTileSet for every
\* rows and cols; it returns no canvas and persists no image.
C4_EmptyTileListFails ==
    (CanvasCalled /\ TileCount = 0) =>
        /\ outcome = EmptyTileSet
        /\ ret = NoneValue
        /\ collated_png = call.saved_before

\* C4 witness: collate_pdf_by_sha over an empty directory with a 2 x 3 grid.
C4_Witness ==
    /\ call.fn = "collate_pdf_by_sha"
    /\ TileCount = 0
    /\ call.rows = 2
    /\ call.cols = 3
    /\ outcome = "IndexError"
    /\ collated_png = NoFile

(***************************************************************************)
(* Properties of determine_ideal_shape (SpecShape).                        *)
(***************************************************************************)
\* C5: every shape determine_ideal_shape returns has rows*cols >= tileCount.
C5_ReturnedShapeHoldsAllTiles ==
    ds_pc = "done" => Capacity(ds_ret) >= ds_size

\* C6: when the growth loop uses up its 100 steps without reaching capacity
\* >= tileCount, the call fails and returns no shape: every return follows a
\* step that reached the capacity.
C6_ExhaustedLoopReturnsNoShape ==
    ds_pc = "done" => ds_fits

\* C7: for every tileCount <= baseRows*baseCols = 6 the base shape (3, 2) is
\* returned unchanged, no row or column added.
C7_BaseShapeKeptWhenItFits ==
    (ds_pc = "done" /\ ds_size <= num_a4_on_rows * num_a4_on_cols) =>
        ds_ret = <<num_a4_on_rows, num_a4_on_cols>>

\* C8: the capacity of the returned shape is monotone in tileCount: of two
\* calls, the one with the smaller tileCount returns the smaller or equal
\* capacity.
C8_CapacityMonotone ==
    (ds_pc = "done" /\ ds_prev.done) =>
        /\ ds_prev.size <= ds_size => Capacity(ds_prev.shape) <= Capacity(ds_ret)
        /\ ds_size <= ds_prev.size => Capacity(ds_ret) <= Capacity(ds_prev.shape)

\* C8 witness: two finished calls, the second with more tiles and a larger
\* capacity.
C8_Witness ==
    /\ ds_pc = "done"
    /\ ds_prev.done
    /\ ds_prev.size = 8
    /\ ds_size = 9
    /\ Capacity(ds_prev.shape) < Capacity(ds_ret)

(***************************************************************************)
(* Properties of transfer_stats_between_wc (SpecTransfer).                 *)
(***************************************************************************)
TransferCalled == wc_call.fn = "transfer_stats_between_wc"
RefBefore == wc_call.before[wc_call.reference_cloud]
TargetBefore == wc_call.before[wc_call.target_cloud]
Output == clouds[wc_ret]
InReference(w) == \E j \in DOMAIN RefBefore : RefBefore[j].word = w

\* C9: for every target entry and every flagged attribute: if the entry's word
\* occurs in reference (exact, case-sensitive equality) the output attribute is
\* reference's value for that word; otherwise it is the default, 0 or (0,0)
\* for position, and not the target's own value.
C9_FlaggedAttributeFromReference ==
    TransferCalled =>
        /\ DOMAIN Output = DOMAIN TargetBefore
        /\ \A i \in DOMAIN TargetBefore : \A f \in Fields :
               wc_call.flags[f] =>
                   /\ \A j \in DOMAIN RefBefore :
                          RefBefore[j].word = TargetBefore[i].word
                              => Output[i][f] = RefBefore[j][f]
                   /\ ~InReference(TargetBefore[i].word) =>
                          /\ Output[i][f] = IF f = "pos" THEN <<0, 0>> ELSE 0
                          /\ Output[i][f] # TargetBefore[i][f]

\* C9 witness: position and colour transferred into a target holding "A",
\* which reference has, and "a", which reference has not.
C9_Witness ==
    /\ TransferCalled
    /\ wc_call.reference_cloud # wc_call.target_cloud
    /\ wc_call.flags.pos /\ wc_call.flags.col
    /\ Len(TargetBefore) = 2
    /\ TargetBefore[1].word = "A" /\ TargetBefore[2].word = "a"
    /\ InReference("A") /\ ~InReference("a")
    /\ Output[1].pos # TargetBefore[1].pos
    /\ Output[2].pos = <<0, 0>>

\* C10: every attribute whose flag is unset keeps the target entry's value,
\* whether or not the word occurs in reference; with all five flags off the
\* output equals target in every field of every entry.
C10_UnflaggedAttributeKept ==
    TransferCalled =>
        /\ DOMAIN Output = DOMAIN TargetBefore
        /\ \A i \in DOMAIN TargetBefore : \A f \in Fields :
               ~wc_call.flags[f] => Output[i][f] = TargetBefore[i][f]
        /\ (\A f \in Fields : ~wc_call.flags[f]) => Output = TargetBefore

\* C10 witness: all flags off, the target's word present in reference with
\* other attribute values.
C10_Witness ==
    /\ TransferCalled
    /\ \A f \in Fields : ~wc_call.flags[f]
    /\ wc_call.reference_cloud # wc_call.target_cloud
    /\ Len(TargetBefore) = 2
    /\ InReference(TargetBefore[1].word)
    /\ ~InReference(TargetBefore[2].word)
    /\ \A j \in DOMAIN RefBefore :
           RefBefore[j].word = TargetBefore[1].word
               => RefBefore[j].fs # TargetBefore[1].fs

WordsOf(layout) == [i \in DOMAIN layout |-> layout[i].word]

\* C11: for every reference, target and flag combination the sequence of words
\* of transfer's output is the sequence of words of target: same entry count,
\* same order, and no word that occurs only in reference appears in it.
C11_WordSequencePreserved ==
    TransferCalled =>
        /\ Len(Output) = Len(TargetBefore)
        /\ WordsOf(Output) = WordsOf(TargetBefore)
        /\ \A j \in DOMAIN RefBefore :
               (\A i \in DOMAIN TargetBefore :
                    TargetBefore[i].word # RefBefore[j].word)
                   => \A i \in DOMAIN Output : Output[i].word # RefBefore[j].word

\* C11 witness: target holds "b" then "a", reference holds "A" and "b"; every
\* attribute is transferred.
C11_Witness ==
    /\ TransferCalled
    /\ wc_call.reference_cloud # wc_call.target_cloud
    /\ \A f \in Fields : wc_call.flags[f]
    /\ WordsOf(TargetBefore) = <<"b", "a">>
    /\ WordsOf(RefBefore) = <<"A", "b">>
    /\ WordsOf(Output) = <<"b", "a">>


(***************************************************************************)
(* Properties of scale_wordcloud and of the frame loops (SpecScale,        *)
(* SpecFrames).                                                            *)
(***************************************************************************)
ScaleCalled == wc_call.fn = "scale_wordcloud"
ScaleReturned == ScaleCalled /\ wc_outcome = "ok"
TargetNow == clouds[wc_call.target_cloud]
ReferenceNow == clouds[wc_call.reference_cloud]
LastStat == list_of_Stats[Len(list_of_Stats)]

\* C12: a call of transfer_stats_between_wc or scale_wordcloud on two separate
\* clouds leaves every entry of the reference layout as it was; in the frame
\* loop the reference layout is, after any number of frames, the layout it
\* was created with before the first frame.
C12_ReferenceNeverMutated ==
    /\ (wc_call.fn # "none" /\ wc_call.reference_cloud # wc_call.target_cloud)
           => ReferenceNow = RefBefore
    /\ (fr_call = "test_all_graphs" /\ list_of_Stats # <<>>)
           => clouds[reference_cloud_id]
                  = create_wordcloud(LastStat.reduced_word_Counter)

\* C12 witness: the second frame has been saved; its cloud shares a word with
\* the reference cloud and was moved to the reference's position.
C12_Witness ==
    /\ fr_call = "test_all_graphs"
    /\ Len(figs) = 2
    /\ ScaleReturned
    /\ wc_call.reference_cloud = reference_cloud_id
    /\ wc_call.target_cloud = cloud_id
    /\ Len(ReferenceNow) = 2
    /\ \E i \in DOMAIN TargetNow :
           /\ InReference(TargetNow[i].word)
           /\ TargetNow[i].pos # TargetBefore[i].pos

\* The font size reference holds for word w, or 1 when it holds none.
RefFsOrOne(w) ==
    IF InReference(w)
    THEN RefBefore[CHOOSE j \in DOMAIN RefBefore : RefBefore[j].word = w].fs
    ELSE 1

\* C13: every entry of the layout scale_wordcloud returns has the font size
\* refFs * targetTotalCount / referenceTotalCount in linear mode and
\* refFs * log10(targetTotalCount) / log10(referenceTotalCount) in log mode,
\* evaluated left to right in floating point, where refFs is the reference's
\* font size for the entry's word, or 1 if reference lacks the word; the
\* target entry's own font size does not enter the value.  Stated for the
\* counts whose ratio is a number.
C13_FontSizeIsReferenceTimesRatio ==
    ScaleReturned =>
        \A i \in DOMAIN TargetBefore :
            LET refFs == RefFsOrOne(TargetBefore[i].word)
                t == wc_call.target_wordcount
                r == wc_call.reference_wordcount
            IN  /\ (wc_call.scale_type = "linear" /\ r >= 1)
                       => Output[i].fs = NatDivNat(refFs * t, r)
                /\ (wc_call.scale_type = "log" /\ t >= 1 /\ r > 1)
                       => Output[i].fs
                              = FloatDiv(NatTimesFloat(refFs, Log10(t)), Log10(r))

\* C13 witness: linear scaling by 10/100 of a target whose first word has
\* font size 30 in reference (15 in target) and whose second word reference
\* lacks: the sizes returned are 3.0 and 0.1.
C13_Witness ==
    /\ ScaleReturned
    /\ wc_call.scale_type = "linear"
    /\ wc_call.target_wordcount = 10 /\ wc_call.reference_wordcount = 100
    /\ Len(TargetBefore) = 2
    /\ TargetBefore[1].fs = 15 /\ RefFsOrOne(TargetBefore[1].word) = 30
    /\ ~InReference(TargetBefore[2].word)
    /\ Output[1].fs = FloatOfNat(3)
    /\ Output[2].fs = NatDivNat(1, 10)

\* C14: in log mode a call with targetTotalCount <= 1 or referenceTotalCount
\* <= 1 ends in an error and returns no layout; no layout returned in log mode
\* holds a zero, negative, infinite or undefined font size.
C14_LogOfSmallCountFails ==
    (ScaleCalled /\ wc_call.scale_type = "log") =>
        /\ (wc_call.target_wordcount <= 1 \/ wc_call.reference_wordcount <= 1)
               => (wc_outcome # "ok" /\ wc_ret = "None")
        /\ wc_outcome = "ok"
               => \A i \in DOMAIN Output :
                      Output[i].fs.cls = "finite" /\ ~Output[i].fs.neg

\* C15: a call with the mode "logistic" ends in an error and returns no
\* layout, whatever the target layout, the empty one included.
C15_LogisticAlwaysFails ==
    (ScaleCalled /\ wc_call.scale_type = "logistic")
        => (wc_outcome # "ok" /\ wc_ret = "None")

\* C16: the layout scale_wordcloud returns has the words of target in the
\* order of target, and each field other than the font size equals that field
\* of transfer_stats_between_wc(reference, target) run with the position,
\* orientation, colour and auxiliary flags on and the font size flag off.
C16_OtherFieldsFromTransfer ==
    ScaleReturned =>
        LET flags == [f \in Fields |-> f \in {"pos", "or", "col", "unk"}]
            transferred ==
                transfer_stats_between_wc(wc_call.before, wc_call.reference_cloud,
                                          wc_call.target_cloud, flags)
                    [wc_call.target_cloud]
        IN  /\ WordsOf(Output) = WordsOf(TargetBefore)
            /\ \A i \in DOMAIN Output : \A f \in Fields \ {"fs"} :
                   Output[i][f] = transferred[i][f]

\* C16 witness: a two-word target returned; its first word has another colour
\* and position in reference, its second word is not in reference and got the
\* defaults.
C16_Witness ==
    /\ ScaleReturned
    /\ wc_call.reference_cloud # wc_call.target_cloud
    /\ WordsOf(TargetBefore) = <<"b", "a">>
    /\ WordsOf(Output) = <<"b", "a">>
    /\ InReference("b") /\ ~InReference("a")
    /\ Output[1].col # TargetBefore[1].col
    /\ Output[1].pos # TargetBefore[1].pos
    /\ Output[2].col = 0 /\ Output[2].pos = <<0, 0>>

\* C17: in log mode, scaling a layout against itself with equal counts > 1
\* leaves every entry's font size at its value before the call, and every
\* other field unchanged.
C17_SelfScalingIsIdentity ==
    (/\ ScaleReturned
     /\ wc_call.scale_type = "log"
     /\ RefBefore = TargetBefore
     /\ wc_call.target_wordcount = wc_call.reference_wordcount
     /\ wc_call.target_wordcount > 1)
        => \A i \in DOMAIN TargetBefore :
               /\ Output[i].fs = FloatOfNat(TargetBefore[i].fs)
               /\ \A f \in Fields \ {"fs"} : Output[i][f] = TargetBefore[i][f]

\* C18 as stated: after a call that returned, the layout of the cloud the
\* caller passed as target has in every entry the values it had before.
C18_TargetUntouched ==
    ScaleReturned =>
        \A i \in DOMAIN TargetBefore :
            /\ TargetNow[i].fs = FloatOfNat(TargetBefore[i].fs)
            /\ \A f \in Fields \ {"fs"} : TargetNow[i][f] = TargetBefore[i][f]

\* C18: scale_wordcloud, and the transfer_stats_between_wc it calls, change
\* the target in place: the object returned is the very object passed as
\* target, so the caller's target holds the layout returned, and no other
\* cloud changes.
C18_TargetChangedInPlace ==
    ScaleReturned =>
        /\ wc_ret = wc_call.target_cloud
        /\ TargetNow = Output
        /\ \A c \in CloudIds \ {wc_call.target_cloud} :
               clouds[c] = wc_call.before[c]

\* C18 witness: the caller's target came back with the position and colour
\* of reference and a scaled font size.
C18_Witness ==
    /\ ScaleReturned
    /\ wc_call.scale_type = "log"
    /\ wc_call.target_wordcount = 10 /\ wc_call.reference_wordcount = 100
    /\ wc_call.reference_cloud # wc_call.target_cloud
    /\ Len(TargetBefore) = 1
    /\ InReference(TargetBefore[1].word)
    /\ TargetNow[1].pos # TargetBefore[1].pos
    /\ TargetNow[1].col # TargetBefore[1].col
    /\ TargetNow[1].fs # FloatOfNat(TargetBefore[1].fs)

\* The message of the most recent snapshot j <= i that has one in the table,
\* the empty string if none has.
RECURSIVE MessageUpTo(_)
MessageUpTo(i) ==
    IF i < 0 THEN ""
    ELSE IF list_of_Stats[i + 1].commit_hash \in DOMAIN commit_status_messages
    THEN commit_status_messages[list_of_Stats[i + 1].commit_hash]
    ELSE MessageUpTo(i - 1)

\* C19: in both frame loops every frame i saved shows the message of the most
\* recent snapshot j <= i that has one, and the empty string if no snapshot
\* 0..i has one; a frame with no message defined so far is composed all the
\* same, the loop does not fail on it.
C19_MessageCarriedOver ==
    /\ \A k \in DOMAIN figs : figs[k].message = MessageUpTo(figs[k].i)
    /\ fr_outcome # "UnboundLocalError"

\* Commit number k has pages and not more than the grid holds.
Composable(k) ==
    /\ DOMAIN pages_of[k] # {}
    /\ Cardinality(DOMAIN pages_of[k]) <= CollateRows * CollateCols

\* C20: when collate_all has ended, every commit of the list that is
\* composable has its composite image, also the commits listed after one
\* whose composition failed.
C20_DriverContinuesAfterFailure ==
    ca_outcome \notin {"none", "running"}
        => \A k \in DOMAIN commits : Composable(k) => collated_of[k] # NoFile


\* C21: test_all_graphs saves exactly one frame for each snapshot of the
\* date-ordered list: with N snapshots it leaves N frames, frame i is built
\* from the i-th oldest snapshot and carries the index i.
C21_OneFramePerSnapshot ==
    (fr_call = "test_all_graphs" /\ fr_outcome = "ok") =>
        /\ Len(figs) = Len(list_of_Stats)
        /\ \A k \in 1 .. Len(figs) :
               /\ figs[k].i = k - 1
               /\ figs[k].commit_hash = list_of_Stats[k].commit_hash

\* C22: in the statistics panel of every frame test_all_graphs saves, each
\* plotted snapshot lies at the time elapsed between the first snapshot of
\* the list and itself: the first snapshot at 0, none at a negative
\* coordinate.
C22_ElapsedSinceFirstSnapshot ==
    fr_call = "test_all_graphs" =>
        \A f \in 1 .. Len(figs) : \A k \in DOMAIN figs[f].stats_x :
            /\ figs[f].stats_x[k] =
                   DeltaDaysOf[list_of_Stats[k].date, list_of_Stats[1].date]
            /\ ~figs[f].stats_x[k].neg
            /\ k = 1 => figs[f].stats_x[k] = FloatZero(FALSE)

\* C23: the statistics series of frame i is exactly the snapshots 0..i of
\* the date-ordered list: i + 1 points, the last one the frame's own snapshot,
\* none of a later snapshot; the series of a frame is the series of the next
\* frame without its last point.
C23_SeriesIsPrefixUpToFrame ==
    fr_call = "test_all_graphs" =>
        \A f \in 1 .. Len(figs) :
            LET i == figs[f].i
            IN  /\ Len(figs[f].stats_y) = i + 1
                /\ Len(figs[f].stats_x) = i + 1
                /\ \A k \in 1 .. i + 1 :
                       figs[f].stats_y[k] = list_of_Stats[k].word_count
                /\ figs[f].stats_y[i + 1] = word_count(figs[f].commit_hash)
                /\ f < Len(figs) =>
                       /\ Len(figs[f + 1].stats_y) = i + 2
                       /\ figs[f].stats_y = SubSeq(figs[f + 1].stats_y, 1, i + 1)
                       /\ figs[f].stats_x = SubSeq(figs[f + 1].stats_x, 1, i + 1)

\* Two frames were saved, the second with one point more than the first.
C23_Witness ==
    /\ fr_call = "test_all_graphs"
    /\ Len(figs) >= 2
    /\ Len(figs[1].stats_y) = 1
    /\ Len(figs[2].stats_y) = 2
    /\ Len(list_of_Stats) > Len(figs[2].stats_y)

\* C24: a run of collate_all neither composes nor overwrites a composite it
\* found persisted, whatever the file holds; so a run started after a run
\* that returned composes nothing and leaves every composite as it was.
C24_SkipIfAlreadyPersisted ==
    ca_runs > 0 =>
        /\ \A k \in DOMAIN commits :
               ca_before[k] # NoFile =>
                   k \notin ca_composed /\ collated_of[k] = ca_before[k]
        /\ ca_previous = "ok" => ca_composed = {} /\ collated_of = ca_before

\* A second run has returned after a first run that returned, over a list
\* with a commit the first run composed and a commit whose stale composite
\* it found.
C24_Witness ==
    /\ ca_runs = 2
    /\ ca_previous = "ok"
    /\ ca_outcome = "ok"
    /\ \E k \in DOMAIN commits : collated_of[k] = StaleImage
    /\ \E k \in DOMAIN commits : collated_of[k] \notin {NoFile, StaleImage}

\* The shape determine_ideal_shape held one growth step before the last.
ShapeOneStepEarlier ==
    IF ds_i % 2 = 1
    THEN <<num_a4_on_rows + adder_r - 1, num_a4_on_cols + adder_c>>
    ELSE <<num_a4_on_rows + adder_r, num_a4_on_cols + adder_c - 1>>

\* C25: the growth alternates strictly, starting with a row: after every
\* growth step, and in the shape returned, the rows added equal the columns
\* added or exceed them by one; and the shape returned is the first of that
\* sequence whose capacity is at least the tile count: it holds the tiles and
\* the shape one step earlier does not.
C25_AlternatingGrowthStopsAtFirstFit ==
    /\ adder_r - adder_c \in {0, 1}
    /\ ds_pc = "done" =>
           /\ ds_ret[1] - num_a4_on_rows - (ds_ret[2] - num_a4_on_cols) \in {0, 1}
           /\ Capacity(ds_ret) >= ds_size
           /\ Capacity(ShapeOneStepEarlier) < ds_size

\* The last call begun was one of the two functions, and it has returned.
RepoCallReturned ==
    /\ rp_call.fn \in {"compile_pdf_from_sha", "create_stats_from_sha"}
    /\ rp_outcome = "ok"

\* C26: every call of compile_pdf_from_sha and of create_stats_from_sha that
\* returns leaves the repository at the revision checked out when the call
\* began, also when the pdf exists and compilation is skipped; and a loop
\* over the commit list that returns leaves it at the revision it started at.
C26_CheckoutRestored ==
    /\ RepoCallReturned => head = rp_call.starting_sha
    /\ rp_loop_outcome = "ok" => head = rp_start

=============================================================================
